---- MODULE Spec2Model ----
(***************************************************************************)
(* dist-ellipses.py: the signed distance between two concentric ellipses,  *)
(* one of them rotated, sampled along rays through the origin.             *)
(*                                                                         *)
(* Numbers.  Python floats are modelled by exact values:                   *)
(*   - a rational is a pair <<n, d>> in lowest terms with d > 0;           *)
(*   - the result of math.sqrt, and everything derived from it by a        *)
(*     product or quotient with a rational, is a "root" [sg, sq]: the real *)
(*     sg * sqrt(sq), sg in {-1, 0, 1}, sq a rational;                     *)
(*   - the difference of two roots is kept as the pair of its terms, and   *)
(*     math.hypot of two differences as the pair of its arguments.         *)
(* Rounding of the float operations is not modelled.  What the float       *)
(* library returns at the axis angles is: tan(radians(90)), tan(radians    *)
(* (180)) and tan(radians(270)) are finite and nonzero (1.6e16, -1.2e-16,  *)
(* 5.4e15), tan(radians(0)) is exactly 0.0.                                *)
(* Angles are integers counting tenths of a degree, the step of the sweep  *)
(* np.arange(0, 360, 0.1).                                                 *)
(***************************************************************************)
EXTENDS Integers, Sequences, FiniteSets, TLC

\* Radii a1, b1, a2, b2 are drawn from 1..MaxRadius.
MaxRadius == 2

\* Stand-in for the magnitude of tan(radians(90)) and of tan(radians(270)),
\* and for 1 / |tan(radians(180))|: finite, nonzero, larger than every other
\* tangent of the table.
TanHuge == 100

\* d degrees, in tenths of a degree.
Deg(d) == 10 * d

-----------------------------------------------------------------------------
(* Exact rational arithmetic *)

IAbs(n) == IF n < 0 THEN -n ELSE n

ISign(n) == IF n < 0 THEN -1 ELSE IF n > 0 THEN 1 ELSE 0

RECURSIVE GCD(_, _)
GCD(m, n) == IF n = 0 THEN m ELSE GCD(n, m % n)

\* n / d in lowest terms, d # 0.
Rat(n, d) ==
    LET g == GCD(IAbs(n), IAbs(d))
        s == IF d < 0 THEN -1 ELSE 1
    IN  << s * (n \div g), s * (d \div g) >>

RInt(n) == << n, 1 >>

RZero == << 0, 1 >>

ROne == << 1, 1 >>

RSign(x) == ISign(x[1])

RNeg(x) == << -x[1], x[2] >>

RAdd(x, y) ==
    LET g == GCD(x[2], y[2])
    IN  Rat(x[1] * (y[2] \div g) + y[1] * (x[2] \div g), (x[2] \div g) * y[2])

RSub(x, y) == RAdd(x, RNeg(y))

\* Factors are cancelled across before multiplying.
RMul(x, y) ==
    LET g1 == GCD(IAbs(x[1]), y[2])
        g2 == GCD(IAbs(y[1]), x[2])
    IN  IF x[1] = 0 \/ y[1] = 0 THEN RZero
        ELSE << (x[1] \div g1) * (y[1] \div g2), (x[2] \div g2) * (y[2] \div g1) >>

\* 1 / y, y # 0.
RInv(y) == IF y[1] < 0 THEN << -y[2], -y[1] >> ELSE << y[2], y[1] >>

\* x / y, y # 0.
RDiv(x, y) == RMul(x, RInv(y))

RSq(x) == RMul(x, x)

\* -1, 0, 1 as n1/d1 is less than, equal to or greater than n2/d2 (d1, d2 > 0),
\* by the integer parts and then the reciprocals of the fractional parts.
RECURSIVE ICmp(_, _, _, _)
ICmp(n1, d1, n2, d2) ==
    LET q1 == n1 \div d1
        q2 == n2 \div d2
        r1 == n1 % d1
        r2 == n2 % d2
    IN  IF q1 < q2 THEN -1
        ELSE IF q1 > q2 THEN 1
        ELSE IF r1 = 0 /\ r2 = 0 THEN 0
        ELSE IF r1 = 0 THEN -1
        ELSE IF r2 = 0 THEN 1
        ELSE ICmp(d2, r2, d1, r1)

RCmp(x, y) == ICmp(x[1], x[2], y[1], y[2])

\* floor(sqrt(n)) for n >= 0, known to lie in lo..hi: by bisection.
RECURSIVE ISqrtIn(_, _, _)
ISqrtIn(n, lo, hi) ==
    IF lo >= hi THEN lo
    ELSE IF ((lo + hi + 1) \div 2) * ((lo + hi + 1) \div 2) <= n
         THEN ISqrtIn(n, (lo + hi + 1) \div 2, hi)
         ELSE ISqrtIn(n, lo, ((lo + hi + 1) \div 2) - 1)

\* 46340 is floor(sqrt(2^31 - 1)).
ISqrt(n) == ISqrtIn(n, 0, IF n < 46340 THEN n ELSE 46340)

IsSquare(n) == ISqrt(n) * ISqrt(n) = n

-----------------------------------------------------------------------------
(* Roots: sg * sqrt(sq) *)

Root(sg, sq) == [sg |-> sg, sq |-> sq]

RootZero == Root(0, RZero)

\* math.sqrt(q) for a rational q >= 0.
RootOfSqrt(q) == IF RSign(q) = 0 THEN RootZero ELSE Root(1, q)

\* The rational x as a root.
RootOfRat(x) == IF RSign(x) = 0 THEN RootZero ELSE Root(RSign(x), RSq(x))

RootNeg(u) == Root(-u.sg, u.sq)

RootMulRat(u, x) ==
    IF u.sg = 0 \/ RSign(x) = 0 THEN RootZero
    ELSE Root(u.sg * RSign(x), RMul(RMul(u.sq, x), x))

\* u / x, x # 0.
RootDivRat(u, x) ==
    IF u.sg = 0 THEN RootZero
    ELSE Root(u.sg * RSign(x), RDiv(RDiv(u.sq, x), x))

\* -1, 0, 1 as u is less than, equal to or greater than v.
RootCmp(u, v) ==
    IF u.sg # v.sg THEN (IF u.sg < v.sg THEN -1 ELSE 1)
    ELSE u.sg * RCmp(u.sq, v.sq)

\* u + v for roots one of which is 0 or whose quotient is rational.
RootAdd(u, v) ==
    IF u.sg = 0 THEN v
    ELSE IF v.sg = 0 THEN u
    ELSE LET k2 == RDiv(v.sq, u.sq)
             k  == << u.sg * v.sg * ISqrt(k2[1]), ISqrt(k2[2]) >>
         IN  IF IsSquare(k2[1]) /\ IsSquare(k2[2])
             THEN RootMulRat(u, RAdd(ROne, k))
             ELSE [irrational |-> << u, v >>]

-----------------------------------------------------------------------------
(* math.cos, math.sin, math.tan of math.radians(t), t in tenths of a degree *)

\* The angles of the sweep np.arange(0, 360, 0.1) that the tables below hold:
\* the axes, and the angles of the 3-4-5 triangle (36.9, 53.1 degrees) in
\* each quadrant, in the order of the sweep.
SweepAngles ==
    << 0, 369, 531, Deg(90), 1269, 1431, Deg(180), 2169, 2331, Deg(270), 3069, 3231 >>

\* math.cos(math.radians(t)).  At 90 and 270 the float is 6.1e-17 and
\* -1.8e-16, rounded here to 0.
Cos(t) ==
    CASE t = 0 -> ROne
      [] t = 369 -> << 4, 5 >>
      [] t = 531 -> << 3, 5 >>
      [] t = Deg(90) -> RZero
      [] t = 1269 -> << -3, 5 >>
      [] t = 1431 -> << -4, 5 >>
      [] t = Deg(180) -> << -1, 1 >>
      [] t = 2169 -> << -4, 5 >>
      [] t = 2331 -> << -3, 5 >>
      [] t = Deg(270) -> RZero
      [] t = 3069 -> << 3, 5 >>
      [] t = 3231 -> << 4, 5 >>

\* math.sin(math.radians(t)).  At 180 the float is 1.2e-16, rounded here to 0.
Sin(t) ==
    CASE t = 0 -> RZero
      [] t = 369 -> << 3, 5 >>
      [] t = 531 -> << 4, 5 >>
      [] t = Deg(90) -> ROne
      [] t = 1269 -> << 4, 5 >>
      [] t = 1431 -> << 3, 5 >>
      [] t = Deg(180) -> RZero
      [] t = 2169 -> << -3, 5 >>
      [] t = 2331 -> << -4, 5 >>
      [] t = Deg(270) -> << -1, 1 >>
      [] t = 3069 -> << -4, 5 >>
      [] t = 3231 -> << -3, 5 >>

\* math.tan(math.radians(t)).  radians(90), radians(180) and radians(270) are
\* not the exact multiples of pi/2, so the float tangent is finite and nonzero
\* there: 1.6e16, -1.2e-16, 5.4e15.  tan(radians(0)) is exactly 0.0.
Tan(t) ==
    CASE t = 0 -> RZero
      [] t = 369 -> << 3, 4 >>
      [] t = 531 -> << 4, 3 >>
      [] t = Deg(90) -> << TanHuge, 1 >>
      [] t = 1269 -> << -4, 3 >>
      [] t = 1431 -> << -3, 4 >>
      [] t = Deg(180) -> << -1, TanHuge >>
      [] t = 2169 -> << 3, 4 >>
      [] t = 2331 -> << 4, 3 >>
      [] t = Deg(270) -> << TanHuge, 1 >>
      [] t = 3069 -> << -4, 3 >>
      [] t = 3231 -> << -3, 4 >>

\* math.sin(v) for a whole number v of radians (line 155 takes the sine of
\* b**2 - a**2), to two decimals.
SinRad(v) ==
    LET w == IAbs(v)
        s == CASE w = 0 -> 0   [] w = 1 -> 84  [] w = 2 -> 91
               [] w = 3 -> 14  [] w = 4 -> -76 [] w = 5 -> -96
               [] w = 6 -> -28 [] w = 7 -> 66  [] w = 8 -> 99
               [] w = 9 -> 41  [] w = 10 -> -54 [] w = 11 -> -100
               [] w = 12 -> -54 [] w = 13 -> 42 [] w = 14 -> 99
               [] w = 15 -> 65
    IN  Rat(ISign(v) * s, 100)

-----------------------------------------------------------------------------
(* The configuration: the module-level defaults a1, b1, a2, b2, T, lT *)

Radii == 1..MaxRadius

\* Values of T, the rotation of the inner ellipse.
RotationAngles == { 0, 369, Deg(90), Deg(270) }

\* Values of lT, the angle of the line of intersection.
LineAngles == { 0, 369, Deg(90), 1431, Deg(270) }

VARIABLES
    cfg,      \* [a1, b1, a2, b2, T, lT]: the module-level values
    pc,       \* the statement of main that runs next
    i,        \* index of the next element of the array being computed
    stderr,   \* what was written to sys.stderr
    green,    \* the point of lines 205-206
    black,    \* the point of lines 213-214
    xnorm, ynorm, xrot, yrot,   \* the arrays of lines 224-228
    diff,     \* the array of line 233
    plotted,  \* what ax1.plot received at line 235
    err,      \* the exception that left main, "none" if none
    last      \* the latest call of get_line_ellipse_x_intercept_rotated

vars == << cfg, pc, i, stderr, green, black, xnorm, ynorm, xrot, yrot, diff,
           plotted, err, last >>

-----------------------------------------------------------------------------
(* Results of a call: a value, or the exception raised and where *)

Return(v) == [err |-> "none", site |-> "none", val |-> v]

Raise(e, where) == [err |-> e, site |-> where, val |-> RootZero]

\* Mutant of check_for_issues_cond: "or" for "and".
check_for_issues_cond_or == cfg.T = Deg(90) \/ cfg.a2 = cfg.b1

\* lines 54-55: the condition of the warning
check_for_issues_cond == cfg.T = Deg(90) /\ cfg.a2 = cfg.b1

\* lines 65-67
get_position_y_at_angle(x, t) == RootMulRat(x, Tan(t))

\* lines 69-71: a float division, ZeroDivisionError on a zero tangent
get_position_x_at_angle(y, t) ==
    IF RSign(Tan(t)) = 0
    THEN Raise("ZeroDivisionError", "get_position_x_at_angle")
    ELSE Return(RootDivRat(y, Tan(t)))

\* lines 142 and 158: (-1 * B + math.sqrt(B**2 - 4 * A * C)) / (2 * A).
\* math.sqrt raises ValueError on a negative argument, the division raises
\* ZeroDivisionError on 2 * A = 0.
QuadraticFrom(disc, A, B, where) ==
    IF RSign(disc) < 0 THEN Raise("ValueError", where)
    ELSE IF RSign(RMul(RInt(2), A)) = 0 THEN Raise("ZeroDivisionError", where)
    ELSE Return(RootDivRat(RootAdd(RootOfRat(RNeg(B)), RootOfSqrt(disc)),
                           RMul(RInt(2), A)))

\* B**2 - 4 * A * C
Discriminant(A, B, C) == RSub(RSq(B), RMul(RMul(RInt(4), A), C))

QuadraticRoot(A, B, C, where) == QuadraticFrom(Discriminant(A, B, C), A, B, where)

\* Mutant of CoefA: the cross term 2 m cos r sin r enters the a**2 factor with
\* the sign it has in the b**2 factor.
CoefA_cross_sign(m, a, b, r) ==
    RAdd(RMul(RSq(RInt(b)),
              RAdd(RAdd(RSq(Cos(r)),
                        RMul(RMul(RMul(RInt(2), m), Cos(r)), Sin(r))),
                   RMul(RSq(m), RSq(Sin(r))))),
         RMul(RSq(RInt(a)),
              RAdd(RAdd(RMul(RSq(m), RSq(Cos(r))),
                        RMul(RMul(RMul(RInt(2), m), Cos(r)), Sin(r))),
                   RSq(Sin(r)))))

\* Mutant of CoefA: the a**2 term is subtracted from the b**2 term.
CoefA_minus(m, a, b, r) ==
    RSub(RMul(RSq(RInt(b)),
              RAdd(RAdd(RSq(Cos(r)),
                        RMul(RMul(RMul(RInt(2), m), Cos(r)), Sin(r))),
                   RMul(RSq(m), RSq(Sin(r))))),
         RMul(RSq(RInt(a)),
              RAdd(RSub(RMul(RSq(m), RSq(Cos(r))),
                        RMul(RMul(RMul(RInt(2), m), Cos(r)), Sin(r))),
                   RSq(Sin(r)))))

\* lines 137-138
CoefA(m, a, b, r) ==
    RAdd(RMul(RSq(RInt(b)),
              RAdd(RAdd(RSq(Cos(r)),
                        RMul(RMul(RMul(RInt(2), m), Cos(r)), Sin(r))),
                   RMul(RSq(m), RSq(Sin(r))))),
         RMul(RSq(RInt(a)),
              RAdd(RSub(RMul(RSq(m), RSq(Cos(r))),
                        RMul(RMul(RMul(RInt(2), m), Cos(r)), Sin(r))),
                   RSq(Sin(r)))))

\* line 140
CoefC(a, b) == RMul(RInt(-1), RMul(RSq(RInt(a)), RSq(RInt(b))))

\* line 154
VertA(a, b, r) ==
    RAdd(RMul(RSq(RInt(b)), RSq(Sin(r))), RMul(RSq(RInt(a)), RSq(Cos(r))))

\* line 155
VertB(a, b, r, x) ==
    RMul(RMul(RMul(RInt(2), x), Cos(r)), SinRad(b * b - a * a))

\* line 156
VertC(a, b, r, x) ==
    RSub(RMul(RSq(x), RAdd(RMul(RSq(RInt(b)), RSq(Cos(r))),
                           RMul(RSq(RInt(a)), RSq(Sin(r))))),
         RMul(RSq(RInt(a)), RSq(RInt(b))))

\* line 159: reached when line 158 raised nothing
ReturnXAtAngle(y, t) ==
    IF y.err # "none" THEN y ELSE get_position_x_at_angle(y.val, t)

\* lines 151-159
get_line_ellipse_y_intercept_rotated(t, a, b, r, x) ==
    ReturnXAtAngle(QuadraticRoot(VertA(a, b, r), VertB(a, b, r, x), VertC(a, b, r, x),
                                 "get_line_ellipse_y_intercept_rotated"), t)

\* line 134: the call goes through the quadratic in y
VerticalBranch(t, r) == t = Deg(90) \/ r = Deg(270)

\* lines 145-146: the test reads the module-level lT
QuadrantNegates == cfg.lT > Deg(90) /\ cfg.lT <= Deg(270)

\* lines 129-147, as a record of the call: its arguments, the branch taken,
\* the leading coefficient A of the quadratic solved, the value x holds at
\* line 144, and what the call returns or raises.
\* lines 134-142: x as it stands at line 144
InterceptBeforeQuadrant(t, a, b, r) ==
    IF VerticalBranch(t, r)
    THEN get_line_ellipse_y_intercept_rotated(t, a, b, r, RZero)
    ELSE QuadraticRoot(CoefA(Tan(t), a, b, r), RZero, CoefC(a, b),
                       "get_line_ellipse_x_intercept_rotated")

\* lines 145-147
QuadrantCorrection(raw) ==
    IF raw.err # "none" THEN raw
    ELSE IF QuadrantNegates THEN Return(RootNeg(raw.val))
    ELSE raw

\* The leading coefficient of the quadratic the call solves (lines 137, 154).
LeadingCoef(t, a, b, r) ==
    IF VerticalBranch(t, r) THEN VertA(a, b, r) ELSE CoefA(Tan(t), a, b, r)

CallRecord(t, a, b, r, raw) ==
    [t |-> t, a |-> a, b |-> b, r |-> r,
     branch |-> IF VerticalBranch(t, r) THEN "vertical" ELSE "general",
     A |-> LeadingCoef(t, a, b, r), raw |-> raw, ret |-> QuadrantCorrection(raw)]

get_line_ellipse_x_intercept_rotated(t, a, b, r) ==
    CallRecord(t, a, b, r, InterceptBeforeQuadrant(t, a, b, r))

\* lines 114-123
get_line_ellipse_x_intercept_standard(t, a, b) ==
    get_line_ellipse_x_intercept_rotated(t, a, b, 0)

-----------------------------------------------------------------------------
(* Line 233: the numpy expression on the arrays, element by element *)

\* x - y, kept as the pair of the terms of the sum x + (-y).
Sub(x, y) == << x, RootNeg(y) >>

\* The sign of the sum d[1] + d[2].
SumSign(d) == RootCmp(d[1], RootNeg(d[2]))

\* abs(d)
SumAbs(d) == IF SumSign(d) < 0 THEN << RootNeg(d[1]), RootNeg(d[2]) >> ELSE d

\* n / d on float64 arrays: 0 / 0 is nan and x / 0 is inf, with a
\* RuntimeWarning and no exception; the quotient of equal or opposite values is
\* 1 or -1; any other quotient is kept as the pair.
NpDivide(n, d) ==
    IF SumSign(d) = 0
    THEN (IF SumSign(n) = 0 THEN [kind |-> "nan"]
          ELSE [kind |-> "inf", sign |-> SumSign(n)])
    ELSE IF n = d THEN [kind |-> "unit", sign |-> 1]
    ELSE IF n = << RootNeg(d[1]), RootNeg(d[2]) >> THEN [kind |-> "unit", sign |-> -1]
    ELSE [kind |-> "quotient", num |-> n, den |-> d]

\* math.hypot(dx, dy): the pair of its arguments; it is 0 exactly when both are.
Hypot(dx, dy) == [dx |-> dx, dy |-> dy]

HypotSign(h) == IF SumSign(h.dx) = 0 /\ SumSign(h.dy) = 0 THEN 0 ELSE 1

\* h * q on float64 arrays: nan when q is nan, else the magnitude h with the
\* sign of the product.
NpMultiply(h, q) ==
    IF q.kind = "nan" THEN [kind |-> "nan"]
    ELSE IF q.kind = "inf"
         THEN (IF HypotSign(h) = 0 THEN [kind |-> "nan"]
               ELSE [kind |-> "inf", sign |-> q.sign])
    ELSE IF q.kind = "unit"
         THEN [kind |-> "number", sign |-> HypotSign(h) * q.sign, mag |-> h]
    ELSE [kind |-> "product", mag |-> h, factor |-> q]

\* Mutant of SignFactor: abs() left out of the divisor.
SignFactor_no_abs(dx) == NpDivide(dx, dx)

\* The sign factor of line 233: (xnorm - xrot) / abs(xnorm - xrot)
SignFactor(dx) == NpDivide(dx, SumAbs(dx))

\* line 233, one element
SignedDistance(xn, yn, xr, yr) ==
    NpMultiply(Hypot(Sub(xn, xr), Sub(yn, yr)), SignFactor(Sub(xn, xr)))

-----------------------------------------------------------------------------
(* main *)

NoCall ==
    [t |-> -1, a |-> 0, b |-> 0, r |-> -1, branch |-> "none",
     A |-> RZero, raw |-> Return(RootZero), ret |-> Return(RootZero)]

NoPoint == << >>

N == Len(SweepAngles)

Init ==
    /\ cfg \in [a1 : Radii, b1 : Radii, a2 : Radii, b2 : Radii,
                T : RotationAngles, lT : LineAngles]
    /\ pc = "check_for_issues"
    /\ i = 1
    /\ stderr = << >>
    /\ green = NoPoint
    /\ black = NoPoint
    /\ xnorm = << >>
    /\ ynorm = << >>
    /\ xrot = << >>
    /\ yrot = << >>
    /\ diff = << >>
    /\ plotted = << >>
    /\ err = "none"
    /\ last = NoCall

\* line 165, lines 54-58
CheckForIssues ==
    /\ pc = "check_for_issues"
    /\ stderr' = IF check_for_issues_cond THEN Append(stderr, "WARNING") ELSE stderr
    /\ pc' = "setup"
    /\ UNCHANGED << cfg, i, green, black, xnorm, ynorm, xrot, yrot, diff, plotted,
                    err, last >>

\* lines 167-199: the figure, the line and the two ellipses; none of these
\* calls divides or takes a root
PlotSetup ==
    /\ pc = "setup"
    /\ pc' = "green"
    /\ UNCHANGED << cfg, i, stderr, green, black, xnorm, ynorm, xrot, yrot, diff,
                    plotted, err, last >>

\* lines 205-209
PlotGreen ==
    /\ pc = "green"
    /\ \E c \in { get_line_ellipse_x_intercept_standard(cfg.lT, cfg.a1, cfg.b1) } :
           /\ last' = c
           /\ IF c.ret.err # "none"
              THEN /\ pc' = "crashed"
                   /\ err' = c.ret.err
                   /\ green' = green
              ELSE /\ pc' = "black"
                   /\ err' = err
                   /\ green' = << c.ret.val, get_position_y_at_angle(c.ret.val, cfg.lT) >>
    /\ UNCHANGED << cfg, i, stderr, black, xnorm, ynorm, xrot, yrot, diff, plotted >>

\* lines 213-217
PlotBlack ==
    /\ pc = "black"
    /\ \E c \in { get_line_ellipse_x_intercept_rotated(cfg.lT, cfg.a2, cfg.b2, cfg.T) } :
           /\ last' = c
           /\ IF c.ret.err # "none"
              THEN /\ pc' = "crashed"
                   /\ err' = c.ret.err
                   /\ black' = black
              ELSE /\ pc' = "xnorm"
                   /\ err' = err
                   /\ black' = << c.ret.val, get_position_y_at_angle(c.ret.val, cfg.lT) >>
    /\ UNCHANGED << cfg, i, stderr, green, xnorm, ynorm, xrot, yrot, diff, plotted >>

\* line 224, one element of the vectorized call: an exception raised for an
\* element leaves the call and main
SweepXnorm ==
    /\ pc = "xnorm"
    /\ \E c \in { get_line_ellipse_x_intercept_standard(SweepAngles[i], cfg.a1, cfg.b1) } :
           /\ last' = c
           /\ IF c.ret.err # "none"
              THEN /\ pc' = "crashed"
                   /\ err' = c.ret.err
                   /\ UNCHANGED << xnorm, i >>
              ELSE /\ xnorm' = Append(xnorm, c.ret.val)
                   /\ err' = err
                   /\ pc' = IF i = N THEN "ynorm" ELSE pc
                   /\ i' = IF i = N THEN 1 ELSE i + 1
    /\ UNCHANGED << cfg, stderr, green, black, ynorm, xrot, yrot, diff, plotted >>

\* line 225, one element
SweepYnorm ==
    /\ pc = "ynorm"
    /\ ynorm' = Append(ynorm, get_position_y_at_angle(xnorm[i], SweepAngles[i]))
    /\ pc' = IF i = N THEN "xrot" ELSE pc
    /\ i' = IF i = N THEN 1 ELSE i + 1
    /\ UNCHANGED << cfg, stderr, green, black, xnorm, xrot, yrot, diff, plotted,
                    err, last >>

\* line 227, one element
SweepXrot ==
    /\ pc = "xrot"
    /\ \E c \in { get_line_ellipse_x_intercept_rotated(SweepAngles[i], cfg.a2, cfg.b2, cfg.T) } :
           /\ last' = c
           /\ IF c.ret.err # "none"
              THEN /\ pc' = "crashed"
                   /\ err' = c.ret.err
                   /\ UNCHANGED << xrot, i >>
              ELSE /\ xrot' = Append(xrot, c.ret.val)
                   /\ err' = err
                   /\ pc' = IF i = N THEN "yrot" ELSE pc
                   /\ i' = IF i = N THEN 1 ELSE i + 1
    /\ UNCHANGED << cfg, stderr, green, black, xnorm, ynorm, yrot, diff, plotted >>

\* line 228, one element
SweepYrot ==
    /\ pc = "yrot"
    /\ yrot' = Append(yrot, get_position_y_at_angle(xrot[i], SweepAngles[i]))
    /\ pc' = IF i = N THEN "diff" ELSE pc
    /\ i' = IF i = N THEN 1 ELSE i + 1
    /\ UNCHANGED << cfg, stderr, green, black, xnorm, ynorm, xrot, diff, plotted,
                    err, last >>

\* lines 232-233: no try/except around the expression
Diff ==
    /\ pc = "diff"
    /\ diff' = [k \in 1..N |-> SignedDistance(xnorm[k], ynorm[k], xrot[k], yrot[k])]
    /\ pc' = "plot"
    /\ UNCHANGED << cfg, i, stderr, green, black, xnorm, ynorm, xrot, yrot, plotted,
                    err, last >>

\* line 235
PlotDiff ==
    /\ pc = "plot"
    /\ plotted' = diff
    /\ pc' = "done"
    /\ UNCHANGED << cfg, i, stderr, green, black, xnorm, ynorm, xrot, yrot, diff,
                    err, last >>

Next ==
    \/ CheckForIssues
    \/ PlotSetup
    \/ PlotGreen
    \/ PlotBlack
    \/ SweepXnorm
    \/ SweepYnorm
    \/ SweepXrot
    \/ SweepYrot
    \/ Diff
    \/ PlotDiff

Spec == Init /\ [][Next]_vars

-----------------------------------------------------------------------------
(* Properties *)

\* A call of get_line_ellipse_x_intercept_rotated was made and returned.
Returned == last.branch # "none" /\ last.ret.err = "none"

\* The array of line 233 exists.
HasDiff == pc \in { "plot", "done" }

\* The two ellipses are the same: a1 = a2, b1 = b2, no rotation.
Identical == cfg.a1 = cfg.a2 /\ cfg.b1 = cfg.b2 /\ cfg.T = 0

\* C1: quadrant property.  Every returned x is <= 0 for a ray angle strictly
\* between 90 and 270 degrees, and >= 0 for a ray angle in (-90, 90) mod 360,
\* whatever lT is.
C1_QuadrantProperty ==
    Returned =>
        /\ (last.t > Deg(90) /\ last.t < Deg(270)) => last.ret.val.sg <= 0
        /\ (last.t < Deg(90) \/ last.t > Deg(270)) => last.ret.val.sg >= 0

\* C2: symmetry.  For identical ellipses every sample of the signed distance
\* is the number 0, not nan and not an error.
C2_IdenticalIsZero ==
    (HasDiff /\ Identical) =>
        \A k \in 1..N : diff[k].kind = "number" /\ diff[k].sign = 0

\* C3: UndefinedSign is reported.  A sample whose x difference is 0 is never
\* handed to the plot as a number or a nan: it is reported as an error.
C3_UndefinedSignReported ==
    pc = "done" =>
        \A k \in 1..N :
            RootCmp(xnorm[k], xrot[k]) = 0 => plotted[k].kind = "UndefinedSign"

\* C4: a geometry fault does not abort the run.  No exception of an
\* intersection call leaves main, for any configuration.
C4_NoUncaughtFault == pc # "crashed" /\ err = "none"

\* C5: pre-flight check.  Nothing is computed before check_for_issues; once it
\* has run, stderr holds the warning exactly when T == 90 and a2 == b1, and
\* holds it once; the check never aborts: main goes on after it, and
\* whatever exception leaves main comes from a later intersection call.
C5_PreflightCheck ==
    /\ pc = "check_for_issues" =>
           /\ stderr = << >>
           /\ last = NoCall
           /\ green = NoPoint /\ black = NoPoint
           /\ xnorm = << >> /\ ynorm = << >> /\ xrot = << >> /\ yrot = << >>
           /\ diff = << >>
    /\ pc # "check_for_issues" =>
           stderr = IF cfg.T = Deg(90) /\ cfg.a2 = cfg.b1
                    THEN << "WARNING" >> ELSE << >>
    /\ pc = "setup" => (err = "none" /\ ENABLED PlotSetup)
    /\ pc = "crashed" => last.ret.err = err /\ err # "none"

\* C5 witness: the warned configuration, run to the end of main.
C5_Witness == pc = "done" /\ stderr = << "WARNING" >>

\* C6: signed distance value.  Where the x difference dx of a sample is not
\* 0, the sample is the number hypot(dx, dy) with the sign of dx: positive
\* exactly when dx > 0, negative exactly when dx < 0, never 0.
C6_SignedDistanceValue ==
    HasDiff =>
        \A k \in 1..N :
            RootCmp(xnorm[k], xrot[k]) # 0 =>
                /\ diff[k].kind = "number"
                /\ diff[k].sign = RootCmp(xnorm[k], xrot[k])
                /\ diff[k].mag = [dx |-> << xnorm[k], RootNeg(xrot[k]) >>,
                                  dy |-> << ynorm[k], RootNeg(yrot[k]) >>]

\* C6 witness: a finished sweep with a positive and a negative sample.
C6_Witness ==
    /\ pc = "done"
    /\ \E j, k \in 1..N :
           /\ plotted[j].kind = "number" /\ plotted[j].sign = 1
           /\ plotted[k].kind = "number" /\ plotted[k].sign = -1

\* The left side of the ellipse equation at the point (x, y), for the ellipse
\* (a, b) rotated by r: ((x cos r + y sin r)/a)^2 + ((-x sin r + y cos r)/b)^2.
EllipseEquation(x, y, a, b, r) ==
    RAdd(RootDivRat(RootAdd(RootMulRat(x, Cos(r)), RootMulRat(y, Sin(r))),
                    RInt(a)).sq,
         RootDivRat(RootAdd(RootMulRat(x, RNeg(Sin(r))), RootMulRat(y, Cos(r))),
                    RInt(b)).sq)

\* C7: the intersection lies on the ellipse.  For a call that took the general
\* branch, the returned x and y = get_position_y_at_angle(x, t) satisfy the
\* equation of the rotated ellipse, and A * x^2 = a^2 * b^2.
C7_OnEllipse ==
    (Returned /\ last.branch = "general") =>
        /\ EllipseEquation(last.ret.val,
                           get_position_y_at_angle(last.ret.val, last.t),
                           last.a, last.b, last.r) = ROne
        /\ RMul(last.A, last.ret.val.sq) = RInt(last.a * last.a * last.b * last.b)

\* C7 witness: a general-branch call on a rotated ellipse, off the axes, whose
\* result the quadrant correction negated.
C7_Witness ==
    /\ Returned /\ last.branch = "general"
    /\ last.r = 369 /\ last.t = 1269 /\ last.a # last.b
    /\ last.ret.val.sg = -1

\* C8: vertical-ray routing.  A call with t = 90 takes the vertical branch and
\* returns a value, and only a call with t = 90 or t = 270 takes that branch.
C8_VerticalRouting ==
    last.branch # "none" =>
        /\ last.t = Deg(90) => (last.branch = "vertical" /\ last.ret.err = "none")
        /\ last.branch = "vertical" => last.t \in { Deg(90), Deg(270) }

\* C9: the inverse evaluator special-cases the horizontal ray.  No call of
\* get_position_x_at_angle divides by a zero tangent.
C9_NoZeroTangentDivision ==
    ~ (/\ last.raw.err = "ZeroDivisionError"
       /\ last.raw.site = "get_position_x_at_angle")

\* C10: the leading coefficient is positive.  In the general branch A > 0, so
\* 2 * A is not 0 and the root is strictly positive before the quadrant
\* correction; in the vertical branch A' > 0.
C10_LeadingCoefPositive ==
    last.branch # "none" =>
        /\ RSign(last.A) = 1
        /\ last.branch = "general" =>
               (last.raw.err = "none" /\ last.raw.val.sg = 1)
        /\ last.branch = "vertical" =>
               last.raw.site # "get_line_ellipse_y_intercept_rotated"

\* C10 witness: a general-branch call in the configuration the warning names
\* (T = 90 and a2 = b1), on the rotated ellipse.
C10_Witness ==
    /\ cfg.T = Deg(90) /\ cfg.a2 = cfg.b1
    /\ last.branch = "general" /\ last.r = Deg(90) /\ last.a = cfg.a2
    /\ last.t = Deg(180)

====
